---- MODULE Spec2Model ----
(***************************************************************************)
(* A model of src2ima.py: the collection of merge groups and standalone   *)
(* files, the size-bounded section packer, the batch scheduler of main    *)
(* and the index builder.                                                  *)
(*                                                                         *)
(* Paths are Python strings, modelled as sequences of one-character        *)
(* strings; the os.path functions are operators over them.  Sizes are in   *)
(* units of 0.5 MiB.  What a file's content renders to is a function of    *)
(* the content, so its length is kept with the file.                       *)
(***************************************************************************)
EXTENDS Integers, Sequences, FiniteSets, TLC

\* ------------------------------------------------------------------ bounds

\* --max-depth ranges over 1..MaxDepthBound
MaxDepthBound == 3
\* --max-workers
MAX_WORKERS == 2
\* --batch-size
batch_size == 3
\* the length of a section header, in the unit of the sizes
HeaderLen == 1

\* ------------------------------------------------------- program constants

\* MAX_FILE_SIZE = 10 MiB, in units of 0.5 MiB
MAX_FILE_SIZE == 20
\* MERGED_FILE_SIZE_LIMIT = 9.5 MiB, in units of 0.5 MiB
MERGED_FILE_SIZE_LIMIT == 19
MAX_PATH_LENGTH == 255
\* MEMORY_THRESHOLD * 100
MEMORY_THRESHOLD_PERCENT == 85

\* a subset of the default IGNORE_PATTERNS: one directory name, one
\* extension and one exact file name
IGNORE_PATTERNS ==
    << <<"b", "i", "n", "/">>,
       <<".", "o">>,
       <<"R", "E", "A", "D", "M", "E">> >>

\* ------------------------------------------------------------ str helpers

Sep == "/"

UpperToLower ==
    [c \in {"A","B","C","D","E","F","G","H","I","J","K","L","M",
            "N","O","P","Q","R","S","T","U","V","W","X","Y","Z"} |->
        CASE c = "A" -> "a" [] c = "B" -> "b" [] c = "C" -> "c" [] c = "D" -> "d"
          [] c = "E" -> "e" [] c = "F" -> "f" [] c = "G" -> "g" [] c = "H" -> "h"
          [] c = "I" -> "i" [] c = "J" -> "j" [] c = "K" -> "k" [] c = "L" -> "l"
          [] c = "M" -> "m" [] c = "N" -> "n" [] c = "O" -> "o" [] c = "P" -> "p"
          [] c = "Q" -> "q" [] c = "R" -> "r" [] c = "S" -> "s" [] c = "T" -> "t"
          [] c = "U" -> "u" [] c = "V" -> "v" [] c = "W" -> "w" [] c = "X" -> "x"
          [] c = "Y" -> "y" [] c = "Z" -> "z"]

\* a variant of line 183 that leaves the case as it is
LowerNot(s) == s

\* str.lower()
Lower(s) ==
    [i \in 1..Len(s) |-> IF s[i] \in DOMAIN UpperToLower THEN UpperToLower[s[i]] ELSE s[i]]

\* str.startswith / str.endswith
StartsWith(s, pre) ==
    Len(pre) <= Len(s) /\ SubSeq(s, 1, Len(pre)) = pre

EndsWith(s, suf) ==
    Len(suf) <= Len(s) /\ SubSeq(s, Len(s) - Len(suf) + 1, Len(s)) = suf

\* str.split(os.sep)
RECURSIVE Split(_)
Split(s) ==
    IF \A i \in 1..Len(s) : s[i] # Sep
    THEN <<s>>
    ELSE LET i == CHOOSE k \in 1..Len(s) :
                    s[k] = Sep /\ \A j \in 1..(k - 1) : s[j] # Sep
         IN  <<SubSeq(s, 1, i - 1)>> \o Split(SubSeq(s, i + 1, Len(s)))

\* str.rstrip('/')
RECURSIVE RStripSep(_)
RStripSep(s) ==
    IF s # <<>> /\ s[Len(s)] = Sep THEN RStripSep(SubSeq(s, 1, Len(s) - 1)) ELSE s

\* index of the last separator, 0 when there is none (str.rfind + 1)
LastSep(s) ==
    IF \E i \in 1..Len(s) : s[i] = Sep
    THEN CHOOSE i \in 1..Len(s) : s[i] = Sep /\ \A j \in (i + 1)..Len(s) : s[j] # Sep
    ELSE 0

\* os.path.basename
basename(p) == SubSeq(p, LastSep(p) + 1, Len(p))

\* os.path.dirname
dirname(p) ==
    LET head == SubSeq(p, 1, LastSep(p))
    IN  IF head # <<>> /\ (\E i \in 1..Len(head) : head[i] # Sep)
        THEN RStripSep(head)
        ELSE head

\* os.path.join of two components
join(a, b) ==
    IF StartsWith(b, <<Sep>>) THEN b
    ELSE IF a = <<>> \/ EndsWith(a, <<Sep>>) THEN a \o b
    ELSE a \o <<Sep>> \o b

\* os.path.relpath(path, start) for a path that is start or lies below it
relpath(path, start) ==
    IF path = start THEN <<".">>
    ELSE SubSeq(path, Len(start) + 2, Len(path))

\* os.path.splitext: the extension starts at the last dot of the name that
\* is not one of its leading dots
splitext(name) ==
    LET dots == {i \in 1..Len(name) :
                    name[i] = "." /\ \E j \in 1..(i - 1) : name[j] # "."}
        cut == IF dots = {} THEN Len(name) + 1
               ELSE CHOOSE i \in dots : \A j \in dots : j <= i
    IN  <<SubSeq(name, 1, cut - 1), SubSeq(name, cut, Len(name))>>

Last(s) == s[Len(s)]
Front(s) == SubSeq(s, 1, Len(s) - 1)
Range(s) == {s[i] : i \in 1..Len(s)}

RECURSIVE Reverse(_)
Reverse(s) == IF s = <<>> THEN <<>> ELSE Append(Reverse(Tail(s)), Head(s))

\* ------------------------------------------------------------ file system

\* os.path.abspath(local_repo), and --output-dir
RepoPath == <<"/", "r">>
OutputDir == <<"o">>
\* a path nothing is at
MissingPath == <<"/", "n", "o">>
\* what an output directory left by an earlier run holds
OldOutput == (join(OutputDir, <<"z", ".", "m", "d">>) :> << <<"z">> >>)

\* an entry of the tree: its kind, its size and the byte length of the
\* content process_target_directory renders for it (lines 309-358)
Rendered(k, n, r) == [kind |-> k, size |-> n, rendered |-> r]
\* an entry whose rendered content is as long as the file
Entry(k, n) == Rendered(k, n, n)

pF == join(RepoPath, <<"f">>)
pObj == join(RepoPath, <<"x", ".", "O">>)
pA == join(RepoPath, <<"a">>)
pReadme == join(pA, <<"R", "E", "A", "D", "M", "E">>)
pG == join(pA, <<"g">>)
pB == join(pA, <<"b">>)
pH == join(pB, <<"h">>)
pK == join(pB, <<"k">>)
pBin == join(pB, <<"b", "i", "n">>)
pM == join(pBin, <<"m">>)
pC == join(pB, <<"c">>)
pN == join(pC, <<"n">>)
pQ == join(pReadme, <<"q">>)
pD == join(pA, <<"d">>)
pP == join(pD, <<"p">>)
pBPart1 == join(pA, <<"b", "_", "p", "a", "r", "t", "1">>)
pU == join(pBPart1, <<"u">>)
pFile1 == join(pB, <<"f", "i", "l", "e", "1", ".", "t", "x", "t">>)
pFile2 == join(pC, <<"f", "i", "l", "e", "2", ".", "t", "x", "t">>)
\* a directory whose name is five characters short of MAX_PATH_LENGTH, and a
\* file in it
pL == join(RepoPath, [i \in 1..(MAX_PATH_LENGTH - 5) |-> "w"])
pY == join(pL, <<"y">>)

\* every path of the trees considered, in one fixed order
PathOrder ==
    <<RepoPath, pF, pObj, pA, pReadme, pQ, pG, pB, pFile1, pH, pK, pBin, pM, pC,
      pFile2, pN, pBPart1, pU, pD, pP, pL, pY>>

\* the tree every tree considered is a variation of
BaseTree ==
    (RepoPath :> Entry("dir", 1)) @@ (pA :> Entry("dir", 1)) @@
    (pB :> Entry("dir", 1)) @@ (pC :> Entry("dir", 1)) @@
    (pBin :> Entry("dir", 1)) @@ (pD :> Entry("dir", 1)) @@
    (pF :> Entry("reg", 2)) @@ (pObj :> Entry("reg", 2)) @@
    (pReadme :> Entry("reg", 2)) @@ (pG :> Entry("reg", 12)) @@
    (pH :> Entry("reg", 2)) @@ (pK :> Entry("reg", 12)) @@
    (pM :> Entry("reg", 2)) @@ (pN :> Entry("reg", 12)) @@
    (pP :> Entry("reg", 2))

\* what a non-directory entry can be: a regular text file of 1 MiB, 6 MiB or
\* 10.5 MiB, one of 1 MiB or 6 MiB whose rendered content is longer, a
\* binary file, a file open() fails on, a link to a file, a link to a
\* directory, a dangling link
FileKinds ==
    {Entry("reg", 2), Entry("reg", 12), Entry("reg", 21),
     Rendered("reg", 2, 10), Rendered("reg", 12, 20), Entry("binary", 2),
     Entry("noOpen", 2), Entry("linkFile", 2), Entry("linkDir", 1),
     Entry("dangling", 0)}

\* the base tree with longer rendered contents
GrownTree ==
    (pF :> Rendered("reg", 2, 10)) @@ (pP :> Rendered("reg", 2, 10)) @@
    (pN :> Rendered("reg", 12, 20)) @@ BaseTree

\* the base tree with three files of 3 MiB in /r/a/b whose rendered contents
\* differ in length
EqualSizesTree ==
    (pH :> Rendered("reg", 6, 11)) @@ (pK :> Rendered("reg", 6, 9)) @@
    (pN :> Rendered("reg", 6, 9)) @@ BaseTree

\* the base tree with a directory /r/a/b_part1 that holds a file
PartNameTree ==
    (pBPart1 :> Entry("dir", 1)) @@ (pU :> Entry("reg", 2)) @@ BaseTree

\* a/b/file1.txt and a/b/c/file2.txt, both small
TwoFilesTree ==
    (RepoPath :> Entry("dir", 1)) @@ (pA :> Entry("dir", 1)) @@
    (pB :> Entry("dir", 1)) @@ (pC :> Entry("dir", 1)) @@
    (pFile1 :> Entry("reg", 1)) @@ (pFile2 :> Entry("reg", 1))

\* /r/f and a file in a directory with a long name
LongDirTree ==
    (RepoPath :> Entry("dir", 1)) @@ (pF :> Entry("reg", 2)) @@
    (pL :> Entry("dir", 1)) @@ (pY :> Entry("reg", 2))

\* the trees considered: the base tree with one of /r/f, /r/a/g, /r/a/b/h,
\* /r/a/b/c/n replaced, or with /r/a/d unreadable, or with /r/a/README a
\* directory that holds a file
Trees ==
    {BaseTree}
    \cup {(p :> e) @@ BaseTree : p \in {pF, pG, pH, pN}, e \in FileKinds}
    \cup {(pD :> Entry("dirNoPerm", 1)) @@ BaseTree}
    \cup {(pReadme :> Entry("dir", 1)) @@ (pQ :> Entry("reg", 2)) @@ BaseTree}
    \cup {GrownTree, EqualSizesTree, PartNameTree, TwoFilesTree, LongDirTree}

VARIABLES
    fs,                     \* the directory tree: path -> [kind, size]
    scandir_rev,            \* whether os.scandir yields PathOrder reversed
    MAX_DIRECTORY_DEPTH,    \* the global set from --max-depth
    output_format,          \* --output-format
    local_repo,             \* os.path.abspath of --local-repo
    output_root,            \* the output directory: "absent", "old" or "fresh"
    pc,                     \* where main is
    stack,                  \* the stack of the traversal in progress
    target_dirs,            \* collect_target_directories' dict, in insertion order
    non_target_files,       \* collect_files_and_dirs_to_process' list
    scanned,                \* the directories os.scandir was called on
    futures,                \* the tasks of the executor in use
    drained,                \* the futures whose result main has consumed
    batch_i,                \* the loop variable i of the batch loop
    processed_count,
    succeeded,              \* the items whose success message main has echoed
    total_items,
    written,                \* the output files: path -> the source files in it
    file_tree,              \* generate_index' tree: node path -> node
    abort                   \* the exception that ended main, if any

Exists(p) == p \in DOMAIN fs
\* DirEntry.is_dir(follow_symlinks=False)
IsDirNoFollow(p) == Exists(p) /\ fs[p].kind \in {"dir", "dirNoPerm"}
\* os.path.isdir, os.path.isfile, os.path.islink
IsDir(p) == Exists(p) /\ fs[p].kind \in {"dir", "dirNoPerm", "linkDir"}
IsFile(p) == Exists(p) /\ fs[p].kind \in {"reg", "binary", "noOpen", "linkFile"}
IsLink(p) == Exists(p) /\ fs[p].kind \in {"linkFile", "linkDir", "dangling"}
\* os.scandir(p) raises PermissionError
ScandirFails(p) == ~Exists(p) \/ fs[p].kind # "dir"
\* DirEntry.stat() and os.path.getsize follow links: they raise on a dangling one
StatFails(p) == ~Exists(p) \/ fs[p].kind = "dangling"
\* open(p) for reading raises
OpenFails(p) == ~Exists(p) \/ fs[p].kind \in {"noOpen", "linkDir", "dangling", "dir", "dirNoPerm"}

\* the entries of a directory in the order os.scandir yields them: the fixed
\* order or its reverse
ListingIn(dir, rev) ==
    LET InDir(p) == Exists(p) /\ p # dir /\ dirname(p) = dir
    IN  SelectSeq(IF rev THEN Reverse(PathOrder) ELSE PathOrder, InDir)

Listing(dir) == ListingIn(dir, scandir_rev)

\* ------------------------------------------------------------- classifier

is_binary_file(file_path) ==
    IF ~IsFile(file_path) \/ IsLink(file_path) THEN TRUE
    ELSE IF OpenFails(file_path) THEN TRUE
    ELSE fs[file_path].kind = "binary"

should_ignore(path) ==
    LET path_lower == Lower(path)
        path_parts == Split(path)
        filename == basename(path)
        P(i) == IGNORE_PATTERNS[i]
        N == DOMAIN IGNORE_PATTERNS
    IN  \/ \E i \in N : /\ StartsWith(P(i), <<".">>)
                        /\ Len(P(i)) > 1
                        /\ EndsWith(path_lower, P(i))
        \/ \E i \in N : /\ EndsWith(P(i), <<Sep>>)
                        /\ RStripSep(P(i)) \in Range(path_parts)
        \/ \E i \in N : /\ ~StartsWith(P(i), <<".">>)
                        /\ ~EndsWith(P(i), <<Sep>>)
                        /\ filename = P(i)
        \/ (IsFile(path) /\ is_binary_file(path))

\* ------------------------------------------------------- depth normalizer

\* a variant of lines 61-62 that does not count the last part
DepthWithoutLast(path) ==
    Len(SelectSeq(Split(path), LAMBDA part : part # <<>>)) - 1

get_directory_depth(path) ==
    Len(SelectSeq(Split(path), LAMBDA part : part # <<>>))

is_target_directory(path, repo_root) ==
    IF ~IsDir(path) THEN FALSE
    ELSE get_directory_depth(relpath(path, repo_root)) = MAX_DIRECTORY_DEPTH

\* ------------------------------------------------------------ tree scanner

\* the while loop of collect_all_files_in_directory: the files collected, as
\* (path, size) pairs, and the directories listed
RECURSIVE CollectLoopIn(_, _, _, _)
CollectLoopIn(stk, all_files, visited, rev) ==
    IF stk = <<>> THEN [files |-> all_files, visited |-> visited]
    ELSE LET current_path == Last(stk)
             rest == Front(stk)
         IN  IF ScandirFails(current_path)
             THEN CollectLoopIn(rest, all_files, visited \cup {current_path}, rev)
             ELSE LET entries == ListingIn(current_path, rev)
                      Pushed(e) == IsDirNoFollow(e) /\ ~should_ignore(e)
                      Taken(e) == /\ ~IsDirNoFollow(e)
                                  /\ ~should_ignore(e)
                                  /\ ~StatFails(e)
                                  /\ fs[e].size <= MAX_FILE_SIZE
                      new_files == SelectSeq(entries, Taken)
                  IN  CollectLoopIn(rest \o SelectSeq(entries, Pushed),
                                    all_files \o [i \in 1..Len(new_files) |->
                                        [path |-> new_files[i], size |-> fs[new_files[i]].size]],
                                    visited \cup {current_path}, rev)

CollectLoop(stk, all_files, visited) ==
    CollectLoopIn(stk, all_files, visited, scandir_rev)

collect_all_files_in_directory(dir_path) ==
    CollectLoop(<<dir_path>>, <<>>, {})

scanVars == <<stack, target_dirs, non_target_files, scanned>>
cfgVars == <<fs, scandir_rev, MAX_DIRECTORY_DEPTH, output_format, local_repo>>
runVars == <<futures, drained, batch_i, processed_count, succeeded, total_items, written,
             file_tree, abort>>

\* a variant of lines 228-231 that accepts every path
AcceptAnyPath(local_path) == TRUE

\* validate_local_repo returns for a directory (TRUE) and raises ValueError
\* otherwise (FALSE)
validate_local_repo(local_path) ==
    Exists(local_path) /\ IsDir(local_path)

\* lines 711-716: the repository is validated; the handler of the ValueError
\* calls click.error, which click does not have
ValidateRepo ==
    /\ pc = "validate_local_repo"
    /\ IF validate_local_repo(local_repo)
       THEN pc' = "prepare_output" /\ UNCHANGED abort
       ELSE pc' = "crashed" /\ abort' = "AttributeError"
    /\ UNCHANGED <<scanVars, cfgVars, output_root, futures, drained, batch_i,
                   processed_count, succeeded, total_items, written, file_tree>>

\* lines 719-726: the old output directory is removed, a new one is made and
\* the scan starts
PrepareOutput ==
    /\ pc = "prepare_output"
    /\ output_root' = "fresh"
    /\ written' = <<>>
    /\ pc' = "collect_target_directories"
    /\ stack' = <<local_repo>>
    /\ UNCHANGED <<target_dirs, non_target_files, scanned, cfgVars, futures, drained,
                   batch_i, processed_count, succeeded, total_items, file_tree, abort>>

\* a variant of lines 124-129 without the test of line 127: a target
\* directory becomes a merge group whatever its file list holds
CollectTargetsStepKeepsEmpty ==
    /\ pc = "collect_target_directories"
    /\ stack # <<>>
    /\ LET current_dir == Last(stack)
            rest == Front(stack)
            res == collect_all_files_in_directory(current_dir)
            Pushed(e) == IsDirNoFollow(e) /\ ~should_ignore(e)
        IN  IF is_target_directory(current_dir, RepoPath)
            THEN /\ target_dirs' = Append(target_dirs,
                                          [dir |-> current_dir, files |-> res.files])
                 /\ stack' = rest
                 /\ scanned' = scanned \cup res.visited
            ELSE /\ stack' = IF ScandirFails(current_dir) THEN rest
                             ELSE rest \o SelectSeq(Listing(current_dir), Pushed)
                 /\ scanned' = scanned \cup {current_dir}
                 /\ UNCHANGED target_dirs
    /\ UNCHANGED <<pc, non_target_files, cfgVars, output_root, runVars>>

\* one iteration of the while loop of collect_target_directories
CollectTargetsStep ==
    /\ pc = "collect_target_directories"
    /\ stack # <<>>
    /\ LET current_dir == Last(stack)
            rest == Front(stack)
            res == collect_all_files_in_directory(current_dir)
            Pushed(e) == IsDirNoFollow(e) /\ ~should_ignore(e)
        IN  IF is_target_directory(current_dir, RepoPath)
            THEN /\ target_dirs' = IF res.files # <<>>
                                   THEN Append(target_dirs,
                                               [dir |-> current_dir, files |-> res.files])
                                   ELSE target_dirs
                 /\ stack' = rest
                 /\ scanned' = scanned \cup res.visited
            ELSE /\ stack' = IF ScandirFails(current_dir) THEN rest
                             ELSE rest \o SelectSeq(Listing(current_dir), Pushed)
                 /\ scanned' = scanned \cup {current_dir}
                 /\ UNCHANGED target_dirs
    /\ UNCHANGED <<pc, non_target_files, cfgVars, output_root, runVars>>

\* collect_target_directories returns; the second traversal starts
CollectTargetsReturn ==
    /\ pc = "collect_target_directories"
    /\ stack = <<>>
    /\ pc' = "collect_files"
    /\ stack' = <<local_repo>>
    /\ UNCHANGED <<target_dirs, non_target_files, scanned, cfgVars, output_root, runVars>>

target_dir_set == {target_dirs[i].dir : i \in DOMAIN target_dirs}

\* a variant of the test of line 526 that never skips
NeverSkipped(current_dir) == FALSE

\* line 526: a directory that became a merge group is skipped
IsCollectedTarget(current_dir) == current_dir \in target_dir_set

\* a variant of lines 523-547 whose handler of a listing error leaves the
\* loop instead of going on with the stack
CollectFilesStepAbandons ==
    /\ pc = "collect_files"
    /\ stack # <<>>
    /\ LET current_dir == Last(stack)
            rest == Front(stack)
            entries == Listing(current_dir)
            Pushed(e) == IsDirNoFollow(e) /\ ~should_ignore(e)
            Taken(e) == ~IsDirNoFollow(e) /\ ~should_ignore(e)
        IN  IF IsCollectedTarget(current_dir) \/ ScandirFails(current_dir)
            THEN /\ stack' = IF IsCollectedTarget(current_dir) THEN rest ELSE <<>>
                 /\ scanned' = IF IsCollectedTarget(current_dir) THEN scanned
                               ELSE scanned \cup {current_dir}
                 /\ UNCHANGED non_target_files
            ELSE /\ stack' = rest \o SelectSeq(entries, Pushed)
                 /\ non_target_files' = non_target_files \o SelectSeq(entries, Taken)
                 /\ scanned' = scanned \cup {current_dir}
    /\ UNCHANGED <<pc, target_dirs, cfgVars, output_root, runVars>>

\* one iteration of the while loop of collect_files_and_dirs_to_process
CollectFilesStep ==
    /\ pc = "collect_files"
    /\ stack # <<>>
    /\ LET current_dir == Last(stack)
            rest == Front(stack)
            entries == Listing(current_dir)
            Pushed(e) == IsDirNoFollow(e) /\ ~should_ignore(e)
            Taken(e) == ~IsDirNoFollow(e) /\ ~should_ignore(e)
        IN  IF IsCollectedTarget(current_dir) \/ ScandirFails(current_dir)
            THEN /\ stack' = rest
                 /\ scanned' = IF IsCollectedTarget(current_dir) THEN scanned
                               ELSE scanned \cup {current_dir}
                 /\ UNCHANGED non_target_files
            ELSE /\ stack' = rest \o SelectSeq(entries, Pushed)
                 /\ non_target_files' = non_target_files \o SelectSeq(entries, Taken)
                 /\ scanned' = scanned \cup {current_dir}
    /\ UNCHANGED <<pc, target_dirs, cfgVars, output_root, runVars>>

\* ------------------------------------------------------------ output paths

md == <<"m", "d">>
html == <<"h", "t", "m", "l">>

HexDigits == <<"0", "1", "2", "3", "4", "5", "6", "7", "8", "9", "a", "b", "c", "d", "e", "f">>

\* str(i) for a part number
Str(i) == IF i < 10 THEN <<HexDigits[i + 1]>>
          ELSE <<HexDigits[(i \div 10) + 1], HexDigits[(i % 10) + 1]>>

Alphabet ==
    <<"/", ".", "_", "a", "b", "c", "d", "e", "f", "g", "h", "i", "j", "k", "l", "m",
      "n", "o", "p", "q", "r", "s", "t", "u", "v", "w", "x", "y", "z", "0", "1", "2",
      "3", "4", "5", "6", "7", "8", "9", "A", "D", "E", "M", "O", "R">>

Code(c) == IF \E i \in DOMAIN Alphabet : Alphabet[i] = c
           THEN CHOOSE i \in DOMAIN Alphabet : Alphabet[i] = c
           ELSE 0

RECURSIVE Digest(_, _)
Digest(s, acc) ==
    IF s = <<>> THEN acc
    ELSE IF Len(s) = 1 THEN (acc * 31 + Code(s[1])) % 16777216
    ELSE LET half == Len(s) \div 2
             left == Digest(SubSeq(s, 1, half), acc)
         IN  IF left >= 0 THEN Digest(SubSeq(s, half + 1, Len(s)), left) ELSE 0

\* hashlib.md5(s.encode()).hexdigest()[:6]: six hex digits that are a
\* function of the whole string (a polynomial digest stands for MD5)
Md5Hex6(s) ==
    LET d == Digest(s, 7)
    IN  [i \in 1..6 |-> HexDigits[((d \div (16 ^ (6 - i))) % 16) + 1]]

shorten_long_path(original_path, max_length, fmt) ==
    IF Len(original_path) <= max_length THEN original_path
    ELSE LET dir_name == dirname(original_path)
             file_name == basename(original_path)
             hash_suffix == Md5Hex6(original_path)
             base_name == splitext(file_name)[1]
             original_ext == splitext(file_name)[2]
             new_file_name == base_name \o <<"_">> \o hash_suffix \o original_ext
                              \o <<".">> \o fmt
         IN  join(dir_name, new_file_name)

\* ---------------------------------------------------------- section packer

\* estimate_content_size of a text of n bytes, in tenths of the unit
estimate_content_size(n, fmt) ==
    IF fmt = html THEN n * 12 ELSE n * 10

\* list.sort(key=lambda x: x[1]): ascending by size, stable
RECURSIVE InsertBySize(_, _)
InsertBySize(x, t) ==
    IF t = <<>> THEN <<x>>
    ELSE IF Last(t).size <= x.size THEN Append(t, x)
    ELSE Append(InsertBySize(x, Front(t)), Last(t))

\* a variant of line 281 that leaves the list as it was scanned
KeepOrder(s) == s

RECURSIVE SortBySize(_)
SortBySize(s) ==
    IF s = <<>> THEN <<>> ELSE InsertBySize(Last(s), SortBySize(Front(s)))

EmptySection == [size_estimate |-> 0, files_included |-> <<>>]

\* a variant of line 363 that leaves the current section's size out
ExceedsLimitAlone(current_section, file_content_size) ==
    file_content_size > MERGED_FILE_SIZE_LIMIT * 10

\* the test of line 363
ExceedsLimit(current_section, file_content_size) ==
    current_section.size_estimate + file_content_size > MERGED_FILE_SIZE_LIMIT * 10

\* a variant of lines 365 and 377 that rejects a section over the limit
AppendSectionWithinLimit(sections, current_section) ==
    IF /\ current_section.size_estimate > 0
       /\ current_section.size_estimate <= MERGED_FILE_SIZE_LIMIT * 10
    THEN Append(sections, current_section)
    ELSE sections

\* lines 365 and 377: a section is appended when its estimate is positive
AppendSection(sections, current_section) ==
    IF current_section.size_estimate > 0 THEN Append(sections, current_section)
    ELSE sections

\* lines 366-370
StartSection(full_rel_path, header_size, file_content_size) ==
    [size_estimate |-> header_size + file_content_size,
     files_included |-> <<full_rel_path>>]

\* lines 372-374
ExtendSection(current_section, full_rel_path, file_content_size) ==
    [size_estimate |-> current_section.size_estimate + file_content_size,
     files_included |-> Append(current_section.files_included, full_rel_path)]

\* the for loop of lines 304-377 over the files, items[k] being the k-th
\* file's full_rel_path and the estimate of its rendered content
RECURSIVE PackLoop(_, _, _, _, _)
PackLoop(items, k, sections, current_section, header_size) ==
    IF k > Len(items) THEN AppendSection(sections, current_section)
    ELSE IF ExceedsLimit(current_section, items[k].size)
    THEN PackLoop(items, k + 1, AppendSection(sections, current_section),
                  StartSection(items[k].path, header_size, items[k].size), header_size)
    ELSE PackLoop(items, k + 1, sections,
                  ExtendSection(current_section, items[k].path, items[k].size),
                  header_size)

\* a variant of lines 382-385 that gives every section a part suffix
SectionOutputPathWithPart(dir_path, i, n, fmt) ==
    LET output_file_name ==
            basename(dir_path) \o <<"_", "p", "a", "r", "t">> \o Str(i) \o <<".">> \o fmt
    IN  join(join(OutputDir, dirname(relpath(dir_path, RepoPath))), output_file_name)

\* lines 381-388: the output path of section i of n
SectionOutputPath(dir_path, i, n, fmt) ==
    LET rel_dir_path == relpath(dir_path, RepoPath)
        dir_name == basename(dir_path)
        output_rel_path == dirname(rel_dir_path)
        output_file_name ==
            IF n > 1 THEN dir_name \o <<"_", "p", "a", "r", "t">> \o Str(i) \o <<".">> \o fmt
            ELSE dir_name \o <<".">> \o fmt
    IN  shorten_long_path(join(join(OutputDir, output_rel_path), output_file_name),
                          MAX_PATH_LENGTH, fmt)

\* the byte length of file_content for a file (lines 309-358)
RenderedLen(file_path) == fs[file_path].rendered

\* process_target_directory(dir_path): the tuple returned (n its length, results
\* its third element), the local list sections and the list input that
\* collect_all_files_in_directory returned at line 276, which is scan.
\* io_error is an error while a file is read, rendered or written
process_target_directory(dir_path, scan, io_error) ==
    LET rel_dir_path == relpath(dir_path, RepoPath)
        files_with_size == SortBySize(scan)
        header_size == estimate_content_size(HeaderLen, output_format)
        items == [k \in DOMAIN files_with_size |->
                    [path |-> join(rel_dir_path, relpath(files_with_size[k].path, dir_path)),
                     size |-> estimate_content_size(RenderedLen(files_with_size[k].path),
                                                    output_format)]]
        sections == PackLoop(items, 1, <<>>, EmptySection, header_size)
        n_sections == Len(sections)
        results == [i \in DOMAIN sections |->
                      [output_path |-> SectionOutputPath(dir_path, i, n_sections,
                                                         output_format),
                       files_included |-> sections[i].files_included]]
    IN  IF files_with_size = <<>>
        THEN [n |-> 2, success |-> FALSE, results |-> <<>>, sections |-> <<>>, input |-> <<>>]
        ELSE IF io_error \/ \E k \in DOMAIN scan : OpenFails(scan[k].path)
        THEN [n |-> 3, success |-> FALSE, results |-> <<>>, sections |-> <<>>,
              input |-> scan]
        ELSE [n |-> 3, success |-> TRUE, results |-> results, sections |-> sections,
              input |-> scan]

\* lines 439-446: where process_single_file writes
FileOutputPath(file_path, fmt) ==
    LET rel_path == relpath(file_path, RepoPath)
        file_name == basename(rel_path)
        new_file_name == file_name \o <<".">> \o fmt
        output_rel_path == join(dirname(rel_path), new_file_name)
    IN  shorten_long_path(join(OutputDir, output_rel_path), MAX_PATH_LENGTH, fmt)

\* process_single_file(file_path): the tuple returned and the file written
process_single_file(file_path) ==
    LET rel_path == relpath(file_path, RepoPath)
        failed == [n |-> 2, success |-> FALSE, results |-> <<>>, sections |-> <<>>,
                   input |-> <<>>]
    IN  IF StatFails(file_path) THEN failed
        ELSE IF fs[file_path].size > MAX_FILE_SIZE THEN failed
        ELSE IF should_ignore(rel_path) \/ should_ignore(file_path) THEN failed
        ELSE IF OpenFails(file_path) THEN failed
        ELSE [n |-> 2, success |-> TRUE,
              results |-> <<[output_path |-> FileOutputPath(file_path, output_format),
                             files_included |-> <<rel_path>>]>>,
              sections |-> <<>>, input |-> <<>>]

\* ------------------------------------------------------------ index builder

EmptyNode == [files |-> <<>>, dirs |-> <<>>]

\* lines 564-572 and 590-598: the node for dir_path, created with its
\* ancestors when missing
NodeKey(dir_path) ==
    IF dir_path = <<".">> THEN <<>>
    ELSE SelectSeq(Split(dir_path), LAMBDA part : part # <<>>)

WithNode(tree, key) ==
    LET prefixes == {SubSeq(key, 1, j) : j \in 0..Len(key)}
    IN  [k \in DOMAIN tree \cup prefixes |-> IF k \in DOMAIN tree THEN tree[k] ELSE EmptyNode]

UrlOf(p) == [i \in 1..Len(p) |-> IF p[i] = Sep THEN "/" ELSE p[i]]

\* lines 558-581: one standalone file
IndexFile(tree, file_path, fmt) ==
    LET rel_path == relpath(file_path, RepoPath)
        file_name == basename(rel_path)
        dir_path == dirname(rel_path)
        key == NodeKey(dir_path)
        t == WithNode(tree, key)
        output_file_name == file_name \o <<".">> \o fmt
        item == [name |-> file_name,
                 url |-> UrlOf(join(dir_path, output_file_name)),
                 formatted_name |-> output_file_name]
    IN  [t EXCEPT ![key].files = Append(@, item)]

RECURSIVE SumSizes(_)
SumSizes(files) ==
    IF files = <<>> THEN 0
    ELSE (IF Head(files).size <= MAX_FILE_SIZE THEN Head(files).size ELSE 0)
         + SumSizes(Tail(files))

\* lines 600-623: the output files the index lists for a group
IndexGroupFiles(dir_name, parent_dir, files_in_dir, fmt) ==
    LET total_size == SumSizes(files_in_dir)
        q == total_size \div MERGED_FILE_SIZE_LIMIT
        estimated_parts == IF q + 1 > 1 THEN q + 1 ELSE 1
        Item(n) == [name |-> n,
                    url |-> UrlOf(join(parent_dir, n \o <<".">> \o fmt)),
                    formatted_name |-> n \o <<".">> \o fmt]
    IN  IF total_size > MERGED_FILE_SIZE_LIMIT
        THEN [i \in 1..estimated_parts |->
                Item(dir_name \o <<"_", "p", "a", "r", "t">> \o Str(i))]
        ELSE <<Item(dir_name)>>

\* lines 584-628: one merge group
IndexGroup(tree, group, fmt) ==
    LET rel_dir_path == relpath(group.dir, RepoPath)
        dir_name == basename(rel_dir_path)
        parent_dir == dirname(rel_dir_path)
        key == NodeKey(parent_dir)
        t == WithNode(tree, key)
        item == [name |-> dir_name,
                 files |-> IndexGroupFiles(dir_name, parent_dir, group.files, fmt)]
    IN  [t EXCEPT ![key].dirs = Append(@, item)]

RECURSIVE IndexFiles(_, _, _)
IndexFiles(tree, files, fmt) ==
    IF files = <<>> THEN tree
    ELSE IndexFiles(IndexFile(tree, Head(files), fmt), Tail(files), fmt)

RECURSIVE IndexGroups(_, _, _)
IndexGroups(tree, groups, fmt) ==
    IF groups = <<>> THEN tree
    ELSE IndexGroups(IndexGroup(tree, Head(groups), fmt), Tail(groups), fmt)

generate_index(files, groups, fmt) ==
    IndexGroups(IndexFiles((<<>> :> EmptyNode), files, fmt), groups, fmt)

\* ---------------------------------------------------------- batch scheduler

NoResult == [n |-> 0, success |-> FALSE, results |-> <<>>, sections |-> <<>>,
             input |-> <<>>]

Task(kind, arg) == [kind |-> kind, arg |-> arg, st |-> "queued", result |-> NoResult]

Running == {i \in DOMAIN futures : futures[i].st = "running"}
AllDone == \A i \in DOMAIN futures : futures[i].st = "done"

\* open(output_path, "w") and write, for every file a task wrote
Write(files, results) ==
    LET paths == {results[i].output_path : i \in DOMAIN results}
        Content(q) == LET i == CHOOSE j \in DOMAIN results :
                                  /\ results[j].output_path = q
                                  /\ \A m \in DOMAIN results :
                                        results[m].output_path = q => m <= j
                      IN  results[i].files_included
    IN  [q \in DOMAIN files \cup paths |-> IF q \in paths THEN Content(q) ELSE files[q]]

\* a variant of lines 756-757 that takes a failure off the count
CountResultDown(count, success) == IF success THEN count + 1 ELSE count - 1

\* a variant of lines 756-757 that counts every result
CountResultAll(count, success) == count + 1

\* lines 755 and 788: the message of a result is echoed; kept for the
\* results that report success
Echo(log, future) ==
    IF future.result.success THEN log \cup {future.arg} ELSE log

\* lines 756-757 and 789-790: a successful result is counted
CountResult(count, success) == IF success THEN count + 1 ELSE count

\* lines 726-736: the scan has returned
CollectFilesReturn ==
    /\ pc = "collect_files"
    /\ stack = <<>>
    /\ IF non_target_files = <<>> /\ target_dirs = <<>>
       THEN pc' = "done" /\ UNCHANGED <<processed_count, total_items>>
       ELSE /\ pc' = "submit_dirs"
            /\ processed_count' = 0
            /\ total_items' = Len(non_target_files) + Len(target_dirs)
    /\ UNCHANGED <<scanVars, cfgVars, output_root, futures, drained, batch_i, succeeded,
                   written, file_tree, abort>>

\* lines 739-751: the merge groups are submitted to a pool
SubmitDirs ==
    /\ pc = "submit_dirs"
    /\ IF target_dirs = <<>>
       THEN pc' = "files_loop" /\ UNCHANGED futures
       ELSE /\ pc' = "drain_dirs"
            /\ futures' = [i \in DOMAIN target_dirs |-> Task("dir", target_dirs[i].dir)]
    /\ drained' = {}
    /\ UNCHANGED <<scanVars, cfgVars, output_root, batch_i, processed_count, succeeded, total_items, written, file_tree, abort>>

\* a worker of the pool takes the next queued task
TaskStart ==
    /\ \E i \in DOMAIN futures :
        /\ futures[i].st = "queued"
        /\ \A j \in 1..(i - 1) : futures[j].st # "queued"
        /\ Cardinality(Running) < MAX_WORKERS
        /\ futures' = [futures EXCEPT ![i].st = "running"]
    /\ UNCHANGED <<pc, scanVars, cfgVars, output_root, drained, batch_i, processed_count, succeeded, total_items,
                   written, file_tree, abort>>

\* a worker runs process_target_directory to its return.  scan_error is an
\* error of os.scandir on dir_path
DirTaskFinish ==
    /\ \E i \in DOMAIN futures :
        /\ futures[i].st = "running"
        /\ futures[i].kind = "dir"
        /\ \E scan_error \in BOOLEAN :
            LET scan == IF scan_error THEN <<>>
                        ELSE collect_all_files_in_directory(futures[i].arg).files
            IN  \E io_error \in BOOLEAN :
                  LET r == process_target_directory(futures[i].arg, scan, io_error)
                  IN  /\ futures' = [futures EXCEPT ![i].st = "done", ![i].result = r]
                      /\ written' = Write(written, r.results)
    /\ UNCHANGED <<pc, scanVars, cfgVars, output_root, drained, batch_i, processed_count, succeeded, total_items,
                   file_tree, abort>>

\* a worker runs process_single_file to its return
FileTaskFinish ==
    /\ \E i \in DOMAIN futures :
        /\ futures[i].st = "running"
        /\ futures[i].kind = "file"
        /\ LET r == process_single_file(futures[i].arg)
           IN  /\ futures' = [futures EXCEPT ![i].st = "done", ![i].result = r]
               /\ written' = Write(written, r.results)
    /\ UNCHANGED <<pc, scanVars, cfgVars, output_root, drained, batch_i, processed_count, succeeded, total_items,
                   file_tree, abort>>

\* lines 753-757: as_completed yields a finished future; its result is
\* unpacked into three names
DrainDir ==
    /\ pc = "drain_dirs"
    /\ \E i \in DOMAIN futures \ drained :
        /\ futures[i].st = "done"
        /\ IF futures[i].result.n # 3
           THEN /\ pc' = "unwinding"
                /\ abort' = "ValueError"
                /\ UNCHANGED <<drained, processed_count, succeeded>>
           ELSE /\ drained' = drained \cup {i}
                /\ processed_count' = CountResult(processed_count,
                                                   futures[i].result.success)
                /\ succeeded' = Echo(succeeded, futures[i])
                /\ UNCHANGED <<pc, abort>>
    /\ UNCHANGED <<scanVars, cfgVars, output_root, futures, batch_i, total_items, written,
                   file_tree>>

\* a variant of lines 749-759 that leaves the pool without waiting for the
\* results
DirsDoneEarly ==
    /\ pc = "drain_dirs"
    /\ pc' = "files_loop"
    /\ futures' = <<>>
    /\ drained' = {}
    /\ UNCHANGED <<scanVars, cfgVars, output_root, batch_i, processed_count, succeeded,
                   total_items, written, file_tree, abort>>

\* lines 759-761: the pool is left, progress is reported
DirsDone ==
    /\ pc = "drain_dirs"
    /\ drained = DOMAIN futures
    /\ pc' = "files_loop"
    /\ futures' = <<>>
    /\ drained' = {}
    /\ UNCHANGED <<scanVars, cfgVars, output_root, batch_i, processed_count, succeeded, total_items, written,
                   file_tree, abort>>

\* an exception leaves the with block: the pool's shutdown waits for its
\* tasks, then the exception ends main
Unwind ==
    /\ pc = "unwinding"
    /\ AllDone
    /\ pc' = "crashed"
    /\ UNCHANGED <<scanVars, cfgVars, output_root, runVars>>

\* psutil.Process(os.getpid()).memory_percent(), sampled
MemorySamples == {50, 90}

\* lines 774-785: wait_for_memory, then the next batch is submitted.
\* wait_for_memory calls psutil.sleep, which psutil does not have, when the
\* sample is above the threshold
BatchStart ==
    /\ pc = "files_loop"
    /\ batch_i < Len(non_target_files)
    /\ \E usage \in MemorySamples :
        IF usage > MEMORY_THRESHOLD_PERCENT
        THEN /\ pc' = "crashed"
             /\ abort' = "AttributeError"
             /\ UNCHANGED <<futures, drained>>
        ELSE /\ pc' = "drain_batch"
             /\ futures' = LET hi == IF batch_i + batch_size < Len(non_target_files)
                                     THEN batch_i + batch_size
                                     ELSE Len(non_target_files)
                           IN  [k \in 1..(hi - batch_i) |->
                                  Task("file", non_target_files[batch_i + k])]
             /\ drained' = {}
             /\ UNCHANGED abort
    /\ UNCHANGED <<scanVars, cfgVars, output_root, batch_i, processed_count, succeeded, total_items, written, file_tree>>

\* lines 787-790: executor.map yields the results in the order of the batch
DrainFile ==
    /\ pc = "drain_batch"
    /\ \E i \in DOMAIN futures \ drained :
        /\ \A j \in 1..(i - 1) : j \in drained
        /\ futures[i].st = "done"
        /\ drained' = drained \cup {i}
        /\ processed_count' = CountResult(processed_count, futures[i].result.success)
        /\ succeeded' = Echo(succeeded, futures[i])
    /\ UNCHANGED <<pc, scanVars, cfgVars, output_root, futures, batch_i, total_items, written, file_tree, abort>>

\* a variant of lines 784-795 that goes on to the next batch without
\* waiting for the results of this one
BatchDoneEarly ==
    /\ pc = "drain_batch"
    /\ pc' = "files_loop"
    /\ batch_i' = batch_i + batch_size
    /\ futures' = <<>>
    /\ drained' = {}
    /\ UNCHANGED <<scanVars, cfgVars, output_root, processed_count, succeeded, total_items, written, file_tree,
                   abort>>

\* lines 792-795: the pool is left, progress is the loop goes on
BatchDone ==
    /\ pc = "drain_batch"
    /\ drained = DOMAIN futures
    /\ pc' = "files_loop"
    /\ batch_i' = batch_i + batch_size
    /\ futures' = <<>>
    /\ drained' = {}
    /\ UNCHANGED <<scanVars, cfgVars, output_root, processed_count, succeeded, total_items, written, file_tree,
                   abort>>

\* lines 797-800: the index is generated
GenerateIndex ==
    /\ pc = "files_loop"
    /\ batch_i >= Len(non_target_files)
    /\ file_tree' = generate_index(non_target_files, target_dirs, output_format)
    /\ pc' = "done"
    /\ UNCHANGED <<scanVars, cfgVars, output_root, futures, drained, batch_i, processed_count, succeeded,
                   total_items, written, abort>>

\* the runs considered: every tree with Markdown output, os.scandir in the
\* fixed order and no output directory; three trees with either format and
\* either order; the base tree with a repository path that is a file or is
\* missing and with an output directory of an earlier run
Configs ==
    {[fs |-> t, rev |-> FALSE, fmt |-> md, repo |-> RepoPath, out |-> "absent"] :
        t \in Trees}
    \cup {[fs |-> t, rev |-> r, fmt |-> f, repo |-> RepoPath, out |-> "absent"] :
            t \in {BaseTree, EqualSizesTree, TwoFilesTree}, r \in BOOLEAN, f \in {md, html}}
    \cup {[fs |-> BaseTree, rev |-> FALSE, fmt |-> md, repo |-> p, out |-> o] :
            p \in {RepoPath, pF, MissingPath}, o \in {"absent", "old"}}

vars == <<fs, scandir_rev, MAX_DIRECTORY_DEPTH, output_format, local_repo, output_root,
          pc, stack, target_dirs,
          non_target_files, scanned, futures, drained, batch_i, processed_count,
          succeeded, total_items, written, file_tree, abort>>

Init ==
    /\ \E c \in Configs :
          /\ fs = c.fs /\ scandir_rev = c.rev /\ output_format = c.fmt
          /\ local_repo = c.repo /\ output_root = c.out
          /\ written = IF c.out = "old" THEN OldOutput ELSE <<>>
    /\ MAX_DIRECTORY_DEPTH \in 1..MaxDepthBound
    /\ pc = "validate_local_repo"
    /\ stack = <<>>
    /\ target_dirs = <<>>
    /\ non_target_files = <<>>
    /\ scanned = {}
    /\ futures = <<>>
    /\ drained = {}
    /\ batch_i = 0
    /\ processed_count = 0
    /\ succeeded = {}
    /\ total_items = 0
    /\ file_tree = <<>>
    /\ abort = "none"

Next ==
    \/ ValidateRepo
    \/ PrepareOutput
    \/ CollectTargetsStep
    \/ CollectTargetsReturn
    \/ CollectFilesStep
    \/ CollectFilesReturn
    \/ SubmitDirs
    \/ TaskStart
    \/ DirTaskFinish
    \/ FileTaskFinish
    \/ DrainDir
    \/ DirsDone
    \/ Unwind
    \/ BatchStart
    \/ DrainFile
    \/ BatchDone
    \/ GenerateIndex

Spec == Init /\ [][Next]_vars

\* ------------------------------------------------------------------ claims

\* both traversals of collect_files_and_dirs_to_process have returned
Collected ==
    /\ output_root = "fresh"
    /\ pc \notin {"collect_target_directories", "collect_files"}

Occurrences(seq, x) == Cardinality({i \in DOMAIN seq : seq[i] = x})

GroupOccurrences(p) ==
    Cardinality({ik \in {<<i, k>> : i \in DOMAIN target_dirs, k \in 1..Len(PathOrder)} :
                    /\ ik[2] \in DOMAIN target_dirs[ik[1]].files
                    /\ target_dirs[ik[1]].files[ik[2]].path = p})

\* the directories between the repository root and p
Ancestors(p) ==
    {d \in DOMAIN fs : d # RepoPath /\ d # p /\ StartsWith(p, d \o <<Sep>>)}

\* a file the classifier does not exclude: a regular file (links followed)
\* that should_ignore passes, in directories that can be listed and that
\* should_ignore passes
NotExcluded(p) ==
    /\ fs[p].kind \in {"reg", "binary", "noOpen", "linkFile"}
    /\ ~should_ignore(p)
    /\ \A d \in Ancestors(p) : fs[d].kind = "dir" /\ ~should_ignore(d)

\* C1: after the collection phase every file that is not excluded and is not
\* larger than MAX_FILE_SIZE is once in the standalone list or once in the
\* file list of one merge group, and not in both
C1_ExactlyOneList ==
    Collected =>
        \A p \in DOMAIN fs :
            (NotExcluded(p) /\ fs[p].size <= MAX_FILE_SIZE)
                => Occurrences(non_target_files, p) + GroupOccurrences(p) = 1

\* the collection is over with files in both lists, an oversized file that
\* is in no merge group and a file that is in one
C1_Witness ==
    /\ pc = "submit_dirs"
    /\ non_target_files # <<>>
    /\ target_dirs # <<>>
    /\ GroupOccurrences(pN) = 1
    /\ \E p \in DOMAIN fs : fs[p].kind = "reg" /\ fs[p].size > MAX_FILE_SIZE
                            /\ GroupOccurrences(p) = 0

RECURSIVE ConcatIncluded(_)
ConcatIncluded(results) ==
    IF results = <<>> THEN <<>>
    ELSE Head(results).files_included \o ConcatIncluded(Tail(results))

FullRelPath(dir_path, file_path) ==
    join(relpath(dir_path, RepoPath), relpath(file_path, dir_path))

SucceededDirs ==
    {i \in DOMAIN futures : /\ futures[i].kind = "dir"
                            /\ futures[i].st = "done"
                            /\ futures[i].result.success}

\* C2: the files_included of the sections of a converted group, concatenated
\* in section order, hold every file of the group's file list once, in
\* ascending order of size
C2_SectionsKeepFiles ==
    \A i \in SucceededDirs :
        LET cat == ConcatIncluded(futures[i].result.results)
            files == target_dirs[i].files
            SizeOf(x) == LET k == CHOOSE k \in DOMAIN files :
                                    FullRelPath(futures[i].arg, files[k].path) = x
                         IN  files[k].size
        IN  /\ Len(cat) = Len(files)
            /\ \A k \in DOMAIN files :
                  Occurrences(cat, FullRelPath(futures[i].arg, files[k].path)) = 1
            /\ \A j, k \in DOMAIN cat : j < k => SizeOf(cat[j]) <= SizeOf(cat[k])

\* a group of three files was converted into several sections, one of them
\* a single file over the limit
C2_Witness ==
    \E i \in SucceededDirs :
        /\ Len(target_dirs[i].files) >= 3
        /\ Len(futures[i].result.results) >= 2
        /\ \E j \in DOMAIN futures[i].result.sections :
              futures[i].result.sections[j].size_estimate > MERGED_FILE_SIZE_LIMIT * 10

\* C3: every section of the sections list is within the limit or holds one
\* file
C3_SectionWithinLimitOrSingle ==
    \A i \in DOMAIN futures :
        \A j \in DOMAIN futures[i].result.sections :
            LET section == futures[i].result.sections[j]
            IN  \/ section.size_estimate <= MERGED_FILE_SIZE_LIMIT * 10
                \/ Len(section.files_included) = 1

\* a group was packed into a section over the limit and a later section,
\* started with the header, that holds several files
C3_Witness ==
    \E i \in DOMAIN futures :
        LET sections == futures[i].result.sections
        IN  /\ \E j \in DOMAIN sections :
                  sections[j].size_estimate > MERGED_FILE_SIZE_LIMIT * 10
            /\ \E j \in DOMAIN sections : j > 1 /\ Len(sections[j].files_included) >= 2

\* C4: a conversion that fails, a group whose file list is empty when it is
\* converted included, never ends main: no exception raised while a task's
\* result is consumed unwinds the scheduler
C4_FailureNeverEndsRun ==
    ~(pc \in {"unwinding", "crashed"} /\ abort = "ValueError")

\* main has consumed the result of every merge group and standalone file
AllAccounted ==
    \/ pc = "files_loop" /\ batch_i >= Len(non_target_files)
    \/ pc = "done"

\* C5 as stated: once every item is accounted for, processed_count equals
\* total_items
C5_CountReachesTotal ==
    AllAccounted => processed_count = total_items

\* the output of a standalone file was written
FileConverted(file_path) ==
    FileOutputPath(file_path, output_format) \in DOMAIN written

\* an output of the merge group was written
GroupConverted(group) ==
    \E n \in 1..Len(group.files) :
        SectionOutputPath(group.dir, 1, n, output_format) \in DOMAIN written

\* the items whose conversion main was told has succeeded
SucceededItems ==
    Cardinality({f \in Range(non_target_files) : f \in succeeded})
    + Cardinality({i \in DOMAIN target_dirs : target_dirs[i].dir \in succeeded})

\* C5 amended: once every item is accounted for, processed_count is the
\* number of items whose conversion succeeded, at most total_items
C5_CountIsSuccesses ==
    AllAccounted =>
        /\ processed_count = SucceededItems
        /\ processed_count <= total_items
        /\ \A f \in Range(non_target_files) : f \in succeeded => FileConverted(f)
        /\ \A i \in DOMAIN target_dirs :
              target_dirs[i].dir \in succeeded => GroupConverted(target_dirs[i])

\* main is through with items that succeeded and items that did not
C5_Witness ==
    /\ pc = "done"
    /\ processed_count > 0
    /\ processed_count < total_items

\* C6: processed_count never decreases from one step to the next
C6_CountNeverDecreases ==
    [][processed_count' >= processed_count]_vars

\* the result of the second task arrived before that of the first and was
\* counted, and the first task has failed
C6_Witness ==
    /\ pc = "drain_dirs"
    /\ processed_count > 0
    /\ drained = {2}
    /\ futures[1].st = "done"
    /\ ~futures[1].result.success

\* C7: a file larger than MAX_FILE_SIZE is in no output file and has no
\* entry in the index
C7_OversizedNowhere ==
    \A p \in DOMAIN fs :
        (fs[p].kind = "reg" /\ fs[p].size > MAX_FILE_SIZE) =>
            LET rel_path == relpath(p, RepoPath)
            IN  /\ \A q \in DOMAIN written :
                      \A k \in DOMAIN written[q] :
                          written[q][k] \notin {rel_path, join(<<".">>, rel_path)}
                /\ \A k \in DOMAIN file_tree :
                      \A j \in DOMAIN file_tree[k].files :
                          ~(/\ k = NodeKey(dirname(rel_path))
                            /\ file_tree[k].files[j].name = basename(rel_path))

IgnoredDirNames ==
    {RStripSep(IGNORE_PATTERNS[i]) :
        i \in {j \in DOMAIN IGNORE_PATTERNS : EndsWith(IGNORE_PATTERNS[j], <<Sep>>)}}

IgnoredExtensions ==
    {IGNORE_PATTERNS[i] :
        i \in {j \in DOMAIN IGNORE_PATTERNS :
                  /\ StartsWith(IGNORE_PATTERNS[j], <<".">>)
                  /\ Len(IGNORE_PATTERNS[j]) > 1}}

IgnoredFileNames ==
    {IGNORE_PATTERNS[i] :
        i \in {j \in DOMAIN IGNORE_PATTERNS :
                  /\ ~StartsWith(IGNORE_PATTERNS[j], <<".">>)
                  /\ ~EndsWith(IGNORE_PATTERNS[j], <<Sep>>)}}

\* the end of p is ext when upper-case letters of p are read as lower-case
EndsWithIgnoringCase(p, ext) ==
    /\ Len(ext) <= Len(p)
    /\ \A i \in 1..Len(ext) :
          LET c == p[Len(p) - Len(ext) + i]
          IN  c = ext[i] \/ (c \in DOMAIN UpperToLower /\ UpperToLower[c] = ext[i])

\* the path matches an extension, a directory-name or an exact-filename rule
MatchesIgnoreRule(p) ==
    \/ \E ext \in IgnoredExtensions : EndsWithIgnoringCase(p, ext)
    \/ \E part \in Range(Split(p)) : part \in IgnoredDirNames
    \/ basename(p) \in IgnoredFileNames

CollectedPaths ==
    Range(non_target_files)
    \cup UNION {{target_dirs[i].files[k].path : k \in DOMAIN target_dirs[i].files} :
                  i \in DOMAIN target_dirs}

\* C8: no entry that matches an ignore rule, or lies below a directory that
\* matches one, is in the standalone list or in a merge group's file list,
\* and no such directory is listed by a scan
C8_IgnoredNeverCollected ==
    \A p \in CollectedPaths \cup scanned :
        \A a \in Ancestors(p) \cup {p} : ~MatchesIgnoreRule(a)

\* the collection is over for a tree that holds a directory named by a
\* directory rule, a directory named by a file-name rule and a file with an
\* ignored extension in upper case
C8_Witness ==
    /\ pc = "submit_dirs"
    /\ {pReadme, pBin, pObj} \subseteq DOMAIN fs
    /\ fs[pReadme].kind = "dir"
    /\ fs[pBin].kind = "dir"
    /\ fs[pObj].kind = "reg"
    /\ non_target_files # <<>>
    /\ target_dirs # <<>>

\* C9: an entry that is not an openable regular file is in neither list
C9_NonRegularNeverCollected ==
    \A p \in DOMAIN fs :
        fs[p].kind \in {"linkFile", "linkDir", "dangling", "noOpen"} =>
            Occurrences(non_target_files, p) + GroupOccurrences(p) = 0

\* the number of non-empty segments of the path relative to the repository
SegmentCount(p) ==
    Len(SelectSeq(Split(p), LAMBDA part : part # <<>>))
    - Len(SelectSeq(Split(RepoPath), LAMBDA part : part # <<>>))

\* C10: a merge group root has MAX_DIRECTORY_DEPTH segments below the
\* repository root, which has none and is no merge group
C10_GroupRootAtMaxDepth ==
    \A i \in DOMAIN target_dirs :
        /\ SegmentCount(target_dirs[i].dir) = MAX_DIRECTORY_DEPTH
        /\ target_dirs[i].dir # RepoPath

\* the output paths the tasks of the pool in use have written to, one entry
\* for every file a task wrote
PoolOutputs ==
    {<<i, a>> : i \in DOMAIN futures, a \in 1..Len(PathOrder)} \cap
    UNION {{<<i, a>> : a \in DOMAIN futures[i].result.results} : i \in DOMAIN futures}

\* C11: no two conversion tasks of a run write to the same output path: the
\* files written by the tasks of a pool are pairwise distinct, the outputs of
\* the standalone files are pairwise distinct, and none of them is an output
\* a merge group has written
C11_OutputPathsDistinct ==
    /\ \A x, y \in PoolOutputs :
          x # y => futures[x[1]].result.results[x[2]].output_path
                   # futures[y[1]].result.results[y[2]].output_path
    /\ Collected =>
          \A f, g \in Range(non_target_files) :
              f # g => FileOutputPath(f, output_format) # FileOutputPath(g, output_format)
    /\ (pc = "files_loop" /\ batch_i = 0) =>
          \A f \in Range(non_target_files) :
              FileOutputPath(f, output_format) \notin DOMAIN written

\* the output files that hold files of the merge group
GroupOutputs(group) ==
    {q \in DOMAIN written :
        /\ written[q] # <<>>
        /\ \E k \in DOMAIN group.files :
              written[q][1] = FullRelPath(group.dir, group.files[k].path)}

\* the output files the index lists for the merge group
IndexedGroupOutputs(group) ==
    LET rel_dir_path == relpath(group.dir, RepoPath)
        key == NodeKey(dirname(rel_dir_path))
        entries == IF key \in DOMAIN file_tree
                   THEN SelectSeq(file_tree[key].dirs,
                                  LAMBDA d : d.name = basename(rel_dir_path))
                   ELSE <<>>
    IN  UNION {{join(OutputDir, entries[e].files[j].url) :
                    j \in DOMAIN entries[e].files} : e \in DOMAIN entries}

\* C12: the output files the index records for a merge group are the
\* section files written for it
C12_IndexListsWrittenSections ==
    pc = "done" /\ file_tree # <<>> =>
        \A i \in DOMAIN target_dirs :
            IndexedGroupOutputs(target_dirs[i]) = GroupOutputs(target_dirs[i])

\* C13: a memory sample above the threshold only delays the next batch of
\* standalone files: main never ends in wait_for_memory with files left to
\* convert
C13_HighUsageOnlyDelays ==
    ~(/\ pc = "crashed"
      /\ abort = "AttributeError"
      /\ output_root = "fresh"
      /\ batch_i < Len(non_target_files))

HasTask(fut, kind) == \E i \in DOMAIN fut : fut[i].kind = kind

\* C14: the pool never holds a merge-group task and a standalone-file task
\* together, a pool is left only when the result of each of its tasks has
\* been drained, and standalone-file tasks are submitted only when no pool
\* is in use
C14_GroupsBeforeFiles ==
    /\ [](~(HasTask(futures, "dir") /\ HasTask(futures, "file")))
    /\ [][(futures # <<>> /\ futures' = <<>>) => drained = DOMAIN futures]_vars
    /\ [][(HasTask(futures', "file") /\ ~HasTask(futures, "file"))
            => (futures = <<>> /\ pc = "files_loop")]_vars
    /\ [][HasTask(futures', "dir") => HasTask(futures, "dir") \/ pc = "submit_dirs"]_vars

\* a standalone-file task runs in a run that has converted a merge group
C14_Witness ==
    /\ pc = "drain_batch"
    /\ target_dirs # <<>>
    /\ processed_count > 0
    /\ \E i \in DOMAIN futures : futures[i].kind = "file" /\ futures[i].st = "running"

\* <output>/a/b.<format>
TwoFilesOutput == join(OutputDir, <<"a", "/", "b", ".">> \o output_format)

\* C15: with max_depth = 2 and the tree of a/b/file1.txt and
\* a/b/c/file2.txt, the collection yields the one merge group a/b with both
\* files and no standalone file, and a conversion that succeeds packs them
\* into one section written to <output>/a/b.<format>
C15_TwoFilesOneGroup ==
    (fs = TwoFilesTree /\ MAX_DIRECTORY_DEPTH = 2) =>
        /\ Collected =>
              /\ Len(target_dirs) = 1
              /\ target_dirs[1].dir = pB
              /\ Len(target_dirs[1].files) = 2
              /\ {target_dirs[1].files[k].path : k \in 1..2} = {pFile1, pFile2}
              /\ non_target_files = <<>>
        /\ \A i \in SucceededDirs :
              /\ Len(futures[i].result.sections) = 1
              /\ Len(futures[i].result.sections[1].files_included) = 2
              /\ Len(futures[i].result.results) = 1
              /\ futures[i].result.results[1].output_path = TwoFilesOutput
        /\ output_root = "fresh" => DOMAIN written \subseteq {TwoFilesOutput}

\* the run on that tree is over and has written a/b.html with both files
C15_Witness ==
    /\ fs = TwoFilesTree
    /\ MAX_DIRECTORY_DEPTH = 2
    /\ output_format = html
    /\ pc = "done"
    /\ DOMAIN written = {TwoFilesOutput}
    /\ Len(written[TwoFilesOutput]) = 2
    /\ file_tree # <<>>

\* the file of the tree that a section names by its full_rel_path
FileOf(dir_path, full_rel_path) ==
    CHOOSE q \in DOMAIN fs : FullRelPath(dir_path, q) = full_rel_path

\* the estimate of the rendered content of the file
EstimateOf(dir_path, full_rel_path) ==
    estimate_content_size(fs[FileOf(dir_path, full_rel_path)].rendered, output_format)

RECURSIVE SumEstimates(_, _)
SumEstimates(dir_path, files) ==
    IF files = <<>> THEN 0
    ELSE EstimateOf(dir_path, Head(files)) + SumEstimates(dir_path, Tail(files))

\* C16: the packing is greedy over the sorted files.  The estimate of a
\* section is the sum of its files' estimates (and the header for a section
\* started by a file that did not fit); a file that follows another one in a section kept the
\* sum within the limit; a section was closed because the next file did not
\* fit.  The files of 1 MiB, 6 MiB and 6 MiB of a/b, rendered as long as
\* they are, give the sections [1 MiB, 6 MiB] and [6 MiB], written as
\* b_part1 and b_part2
C16_GreedyPacking ==
    \A i \in SucceededDirs :
        LET dir_path == futures[i].arg
            sections == futures[i].result.sections
            results == futures[i].result.results
            header_size == estimate_content_size(HeaderLen, output_format)
            limit == MERGED_FILE_SIZE_LIMIT * 10
            \* the header is counted for a section that a file started
            \* because it did not fit
            Header(j) ==
                IF j > 1 \/ EstimateOf(dir_path, sections[j].files_included[1]) > limit
                THEN header_size ELSE 0
        IN  /\ \A j \in DOMAIN sections :
                  /\ sections[j].size_estimate =
                        Header(j) + SumEstimates(dir_path, sections[j].files_included)
                  /\ \A k \in 2..Len(sections[j].files_included) :
                        Header(j)
                        + SumEstimates(dir_path, SubSeq(sections[j].files_included, 1, k))
                            <= limit
                  /\ j < Len(sections) =>
                        sections[j].size_estimate
                        + EstimateOf(dir_path, sections[j + 1].files_included[1]) > limit
            /\ (fs = BaseTree /\ output_format = md /\ dir_path = pB) =>
                  /\ Len(sections) = 2
                  /\ sections[1].files_included = <<relpath(pH, RepoPath), relpath(pK, RepoPath)>>
                  /\ sections[2].files_included = <<relpath(pN, RepoPath)>>
                  /\ results[1].output_path
                        = join(OutputDir, <<"a", "/", "b", "_", "p", "a", "r", "t", "1", ".", "m", "d">>)
                  /\ results[2].output_path
                        = join(OutputDir, <<"a", "/", "b", "_", "p", "a", "r", "t", "2", ".", "m", "d">>)

\* the group a/b of the base tree was converted with os.scandir listing in
\* reverse, so that the scan order is not the sorted order
C16_Witness ==
    /\ fs = BaseTree
    /\ output_format = md
    /\ scandir_rev
    /\ \E i \in SucceededDirs :
          /\ futures[i].arg = pB
          /\ futures[i].result.input[1].path = pK
          /\ Len(futures[i].result.sections) = 2

GroupOutputsIn(dir_path, rev) ==
    LET scan == CollectLoopIn(<<dir_path>>, <<>>, {}, rev).files
        results == process_target_directory(dir_path, scan, FALSE).results
    IN  {results[j].output_path : j \in DOMAIN results}

\* C18: the output paths of a converted merge group are those a run writes
\* for it when the file system lists the directory entries in the other
\* order
C18_SameOutputsInAnyOrder ==
    \A i \in SucceededDirs :
        {futures[i].result.results[j].output_path : j \in DOMAIN futures[i].result.results}
            = GroupOutputsIn(futures[i].arg, ~scandir_rev)

\* C19: when the repository path is missing or is no directory, the output
\* directory is left as it was (not removed, not created, nothing written),
\* no scan is started, no task is submitted and no index is built
C19_InvalidRepoTouchesNothing ==
    (local_repo \notin DOMAIN fs
        \/ fs[local_repo].kind \notin {"dir", "dirNoPerm", "linkDir"}) =>
        /\ output_root \in {"absent", "old"}
        /\ written = (IF output_root = "old" THEN OldOutput ELSE <<>>)
        /\ stack = <<>>
        /\ scanned = {}
        /\ target_dirs = <<>>
        /\ non_target_files = <<>>
        /\ futures = <<>>
        /\ file_tree = <<>>
        /\ pc \in {"validate_local_repo", "crashed"}

\* main has ended for a repository path that is a file, with the output
\* directory of an earlier run in place
C19_Witness ==
    /\ local_repo = pF
    /\ pc = "crashed"
    /\ output_root = "old"
    /\ written = OldOutput

\* C20: the files a merge group's conversion task reads are the file list
\* recorded for the group in the collection phase
C20_ConversionUsesCollectedList ==
    \A i \in DOMAIN futures :
        (futures[i].kind = "dir" /\ futures[i].st = "done") =>
            futures[i].result.input = target_dirs[i].files

\* C21: a file of a merge group that cannot be read costs the group only
\* that file: when the group holds files that can be read, its conversion
\* writes sections that hold each of them
C21_ReadFailureContained ==
    \A i \in DOMAIN futures :
        (futures[i].kind = "dir" /\ futures[i].st = "done") =>
            LET input == futures[i].result.input
                cat == ConcatIncluded(futures[i].result.results)
            IN  (\E k \in DOMAIN input : OpenFails(input[k].path)) =>
                    \A k \in DOMAIN input :
                        ~OpenFails(input[k].path) =>
                            Occurrences(cat, FullRelPath(futures[i].arg, input[k].path)) = 1

\* the files below directory d
FilesBelow(d) ==
    {p \in DOMAIN fs : StartsWith(p, d \o <<Sep>>) /\ ~IsDirNoFollow(p)}

\* a directory MAX_DIRECTORY_DEPTH segments below the repository root that
\* the traversal reaches and whose subtree holds no eligible file: every
\* file in it is ignored, binary or larger than MAX_FILE_SIZE, or lies in
\* a directory that is ignored or cannot be listed
EmptyTargets ==
    {d \in DOMAIN fs :
        /\ IsDirNoFollow(d)
        /\ SegmentCount(d) = MAX_DIRECTORY_DEPTH
        /\ ~should_ignore(d)
        /\ \A a \in Ancestors(d) : fs[a].kind = "dir" /\ ~should_ignore(a)
        /\ \A p \in FilesBelow(d) :
              \/ should_ignore(p)
              \/ fs[p].size > MAX_FILE_SIZE
              \/ \E a \in Ancestors(p) :
                    /\ a = d \/ StartsWith(a, d \o <<Sep>>)
                    /\ fs[a].kind # "dir" \/ (a # d /\ should_ignore(a))}

\* C22: a directory at max_depth whose subtree holds no eligible file is
\* no key of the merge groups, is not counted in total_items, and no output
\* is written for it or below it
C22_EmptyGroupDropped ==
    Collected =>
        \A d \in EmptyTargets :
            /\ d \notin target_dir_set
            /\ total_items # 0 =>
                  total_items = Len(non_target_files)
                                + Cardinality(target_dir_set \ {d})
            /\ \A i \in DOMAIN futures : futures[i].arg # d
            /\ \A q \in DOMAIN written :
                  ~StartsWith(q, join(OutputDir, relpath(d, RepoPath)))

\* a run has ended with outputs written and a directory at max_depth that
\* holds one file, larger than MAX_FILE_SIZE
C22_Witness ==
    /\ pc = "done"
    /\ output_root = "fresh"
    /\ DOMAIN written # {}
    /\ total_items > 0
    /\ \E d \in EmptyTargets :
          /\ fs[d].kind = "dir"
          /\ \E p \in FilesBelow(d) : fs[p].kind = "reg" /\ fs[p].size > MAX_FILE_SIZE

\* the directories the traversals reach: not ignored, below directories
\* that are not ignored and can be listed
ReachedDirs ==
    {d \in DOMAIN fs :
        /\ IsDirNoFollow(d)
        /\ d = RepoPath \/ ~should_ignore(d)
        /\ \A a \in Ancestors(d) : fs[a].kind = "dir" /\ ~should_ignore(a)}

UnlistedDirs == {d \in ReachedDirs : fs[d].kind = "dirNoPerm"}

\* C23: when a directory cannot be listed, the traversals still list every
\* other directory they reach, every eligible file outside the subtree of
\* the directory is collected once, and the scan returns to main
C23_ListingErrorContained ==
    (Collected /\ UnlistedDirs # {}) =>
        /\ \A d \in ReachedDirs : d \in scanned
        /\ \A p \in DOMAIN fs :
              (NotExcluded(p) /\ fs[p].size <= MAX_FILE_SIZE)
                  => Occurrences(non_target_files, p) + GroupOccurrences(p) = 1
        /\ pc = "submit_dirs" => abort = "none"

\* a run over a tree with a directory that cannot be listed has ended: the
\* directory was popped before its sibling, whose files are in the
\* standalone list and were converted
C23_Witness ==
    /\ pc = "done"
    /\ UnlistedDirs = {pD}
    /\ MAX_DIRECTORY_DEPTH = 3
    /\ Occurrences(non_target_files, pH) = 1
    /\ pH \in succeeded
    /\ GroupOccurrences(pN) = 1

\* the slice non_target_files[i : i + batch_size]
BatchSlice(i) ==
    SubSeq(non_target_files, i + 1,
           IF i + batch_size < Len(non_target_files) THEN i + batch_size
           ELSE Len(non_target_files))

\* C24: the batch in the pool is the next slice of at most batch_size files
\* of the standalone list, in the order of the list, and the slices start
\* at the multiples of batch_size; the next batch is started only when
\* every task of this one is done and its result drained; and never more
\* than MAX_WORKERS tasks run
C24_BatchesInOrder ==
    /\ [](pc = "drain_batch" =>
            /\ batch_i % batch_size = 0
            /\ Len(futures) \in 1..batch_size
            /\ [k \in DOMAIN futures |-> futures[k].arg] = BatchSlice(batch_i)
            /\ \A k \in DOMAIN futures : futures[k].kind = "file")
    /\ [][batch_i' # batch_i =>
            /\ batch_i' = batch_i + batch_size
            /\ \A k \in DOMAIN futures : futures[k].st = "done" /\ k \in drained]_vars
    /\ [](Cardinality({k \in DOMAIN futures : futures[k].st = "running"}) <= MAX_WORKERS)

\* the second batch runs after a first batch of batch_size files, more
\* than the workers, was drained
C24_Witness ==
    /\ pc = "drain_batch"
    /\ batch_i = batch_size
    /\ batch_size > MAX_WORKERS
    /\ Len(non_target_files) > batch_size
    /\ \E k \in DOMAIN futures : futures[k].st = "running"
    /\ processed_count >= batch_size

\* C25: every file of the standalone list lies in a directory fewer than
\* MAX_DIRECTORY_DEPTH segments below the repository root
C25_StandaloneAboveMaxDepth ==
    Collected =>
        \A k \in DOMAIN non_target_files :
            SegmentCount(dirname(non_target_files[k])) < MAX_DIRECTORY_DEPTH

\* the output path of a standalone file before it is shortened
UnshortenedOutputPath(file_path) ==
    join(OutputDir, relpath(file_path, RepoPath) \o <<".">> \o output_format)

\* C26: shorten_long_path returns an output path longer than
\* MAX_PATH_LENGTH as a path of at most MAX_PATH_LENGTH characters that is
\* not longer than the one it was given, and returns a path of at most
\* MAX_PATH_LENGTH characters unchanged; so no file is written at a path
\* longer than MAX_PATH_LENGTH
C26_ShortenedWithinLimit ==
    /\ \A k \in DOMAIN non_target_files :
          LET original_path == UnshortenedOutputPath(non_target_files[k])
              shortened == shorten_long_path(original_path, MAX_PATH_LENGTH, output_format)
          IN  IF Len(original_path) > MAX_PATH_LENGTH
              THEN Len(shortened) <= MAX_PATH_LENGTH /\ Len(shortened) <= Len(original_path)
              ELSE shortened = original_path
    /\ \A q \in DOMAIN written : Len(q) <= MAX_PATH_LENGTH

====
